---- MODULE Spec2Model ----
(***************************************************************************)
(* Model of the Big Pic Solutions invoicing application                    *)
(* (src/Invoicing/app.py): the clients, jobs and company_settings tables   *)
(* of the SQLite store and the request handlers that read and write them.  *)
(*                                                                         *)
(* The server answers requests on threads, and a handler holds no lock     *)
(* between two database sessions.  A handler with one session (one         *)
(* statement, or statements committed together) is one action; a handler   *)
(* with several sessions is one action per session, and pending holds the  *)
(* requests in progress, each with what it has read so far.  The HTTP      *)
(* response of the last request that was answered is kept in resp.         *)
(*                                                                         *)
(* Numbers are modelled as integers: hours, rates and totals are whole     *)
(* numbers.  A JSON request body is a record whose fields are tagged       *)
(* values [kind, val]: kind "absent" is a missing key, "null" a JSON null, *)
(* "num" a JSON number, "numstr" a JSON string that spells a number, "str" *)
(* any other JSON string.  A date string 'YYYY-MM-DD' is the string whose  *)
(* val is the day's ordinal (1 or more); the string of val 0 is "abc".     *)
(***************************************************************************)
EXTENDS Integers, Sequences, FiniteSets, TLC

\* ------------------------------------------------------------------ bounds
MaxJobs == 2
MaxClients == 1
MaxLegacy == 1
MaxDay == 2
MaxProcs == 2

\* ------------------------------------------------------- program constants
NULL == -1
NULLTEXT == "<null>"
DefaultHours == 0
DefaultHourlyRate == 140
OK == 200
CREATED == 201
BAD_REQUEST == 400
NOT_FOUND == 404
SERVER_ERROR == 500

VARIABLES clients, jobs, settings, nextClientId, nextJobId, today, resp,
          assigned, pending

vars == <<clients, jobs, settings, nextClientId, nextJobId, today, resp,
          assigned, pending>>

\* ----------------------------------------------------------- input values
Absent == [kind |-> "absent", val |-> 0]
Null == [kind |-> "null", val |-> 0]
Num(n) == [kind |-> "num", val |-> n]
NumStr(n) == [kind |-> "numstr", val |-> n]
Str == [kind |-> "str", val |-> 0]

TAbsent == [kind |-> "absent", val |-> ""]
TNull == [kind |-> "null", val |-> ""]
Text(s) == [kind |-> "str", val |-> s]

\* float(data.get(key, default)): the outcome is [ok, val]
to_float(v, default) ==
    CASE v.kind = "absent" -> [ok |-> TRUE, val |-> default]
      [] v.kind = "num" -> [ok |-> TRUE, val |-> v.val]
      [] v.kind = "numstr" -> [ok |-> TRUE, val |-> v.val]
      [] OTHER -> [ok |-> FALSE, val |-> 0]

\* int(data.get(key)): a missing key is None, and int(None) raises
to_int(v) ==
    CASE v.kind = "num" -> [ok |-> TRUE, val |-> v.val]
      [] v.kind = "numstr" -> [ok |-> TRUE, val |-> v.val]
      [] OTHER -> [ok |-> FALSE, val |-> 0]

\* data.get(key) / data.get(key, default) of a text field
get_text(v, default) ==
    CASE v.kind = "absent" -> default
      [] v.kind = "null" -> NULLTEXT
      [] OTHER -> v.val

\* a JSON string that spells the date of day d
DateStr(d) == [kind |-> "str", val |-> d]

\* data.get('job_date') as the job_date column keeps it: a missing key or a
\* JSON null is NULL, a string is kept as text, a number is kept as a
\* number, and so is a string that spells one (the column is declared DATE,
\* which has numeric affinity)
get_date(v) ==
    CASE v.kind = "absent" -> Null
      [] v.kind = "null" -> Null
      [] v.kind = "numstr" -> Num(v.val)
      [] OTHER -> v

\* the stored job_date is a string in ISO format (what
\* datetime.fromisoformat and strftime accept)
is_iso(date) == date.kind = "str" /\ date.val > 0

\* ------------------------------------------------------------------ helpers
MaxOf(S) == CHOOSE m \in S : \A x \in S : x <= m

\* SELECT MAX(invoice_number) FROM jobs: NULLs are skipped, and the maximum
\* of no rows is NULL
max_invoice_number(js) ==
    LET nums == {js[i].invoice_number : i \in DOMAIN js} \ {NULL}
    IN  IF nums = {} THEN NULL ELSE MaxOf(nums)

\* Python's "x or 0" / "not x" on an integer-or-None value
falsy(n) == n = NULL \/ n = 0

\* get_next_invoice_number without the increment
get_next_invoice_number_stale(js) ==
    LET result == max_invoice_number(js)
    IN  IF falsy(result) THEN 1 ELSE result

get_next_invoice_number(js) ==
    LET result == max_invoice_number(js)
    IN  (IF falsy(result) THEN 0 ELSE result) + 1

\* the last request answered and its response: the handler, the status code,
\* and the id and invoice_number of the body (NULL when the body has none)
Response(op, code, id, num) ==
    [op |-> op, code |-> code, id |-> id, invoice_number |-> num]

LegacyJob ==
    [client_id |-> 1, job_date |-> DateStr(1), description |-> "work", hours |-> 2,
     hourly_rate |-> DefaultHourlyRate, total |-> 2 * DefaultHourlyRate,
     notes |-> "", status |-> "draft", invoice_number |-> NULL,
     invoice_status |-> "draft", invoice_sent_date |-> NULL,
     invoice_paid_date |-> NULL]

LegacyClient == [name |-> "Acme", hourly_rate |-> DefaultHourlyRate]

\* the company_settings row that init_db inserts
DefaultSettings ==
    [company_name |-> "Big Pic Solutions", owner_name |-> "Daryll Gomas",
     address |-> "4116 SE 79th Ave, Portland, Oregon 97206",
     phone |-> "727-475-4153", email |-> "daryll.gomas@gmail.com",
     default_hourly_rate |-> DefaultHourlyRate]

\* The store after init_db and migrate_db: empty, or an older database whose
\* rows predate the invoice columns (invoice_number NULL, invoice_status
\* "draft" by the column default).  No request is in progress.
Init ==
    \E k \in 0..MaxLegacy :
        /\ jobs = [i \in 1..k |-> LegacyJob]
        /\ nextJobId = k + 1
        /\ clients = [i \in 1..(IF k > 0 THEN 1 ELSE 0) |-> LegacyClient]
        /\ nextClientId = (IF k > 0 THEN 2 ELSE 1)
        /\ settings = DefaultSettings
        /\ today = 1
        /\ resp = Response("none", OK, NULL, NULL)
        /\ assigned = <<>>
        /\ pending = <<>>

\* the total taken as the sum of its two factors
job_total_sum(hours, hourly_rate) == hours + hourly_rate

\* total = hours * hourly_rate
job_total(hours, hourly_rate) == hours * hourly_rate

\* --------------------------------------------------- requests in progress
\* app.run serves every request on a thread of its own.  pending counts the
\* requests in progress by what each has read so far: two requests that have
\* read the same values are two, not one.
RECURSIVE Count(_)
Count(S) ==
    IF S = {} THEN 0
    ELSE LET r == CHOOSE r \in S : TRUE IN pending[r] + Count(S \ {r})

\* a thread is free for a request that arrives
Free == Count(DOMAIN pending) < MaxProcs

Start(rec) ==
    [r \in DOMAIN pending \cup {rec} |->
        IF r \in DOMAIN pending
        THEN (IF r = rec THEN pending[r] + 1 ELSE pending[r])
        ELSE 1]

Finish(p) ==
    [r \in {q \in DOMAIN pending : q # p \/ pending[q] > 1} |->
        IF r = p THEN pending[r] - 1 ELSE pending[r]]

Step(p, rec) ==
    LET rest == Finish(p)
    IN  [r \in DOMAIN rest \cup {rec} |->
            IF r \in DOMAIN rest
            THEN (IF r = rec THEN rest[r] + 1 ELSE rest[r])
            ELSE 1]

\* the jobs table has room for the creations in progress and one more
Room(max) ==
    nextJobId + Count({q \in DOMAIN pending : q.op = "add_job"}) <= max

\* A status change that numbers the job holds SQLite's write lock from its
\* first UPDATE (line 676) until it commits or closes: its connection is in
\* a transaction while the handler reads the clock.
Holds(q) == q.op = "update_invoice_status" /\ q.stage = "clock" /\ q.lazy

\* No connection holds the write lock.  A statement that writes while
\* another connection holds it waits; when the wait outlasts the timeout of
\* sqlite3.connect (5 seconds by default) the statement raises "database is
\* locked" and the handler answers the error with nothing written.
Unlocked == \A q \in DOMAIN pending : ~Holds(q)

\* ---------------------------------------------------------------- handlers
\* POST /api/clients
add_client(data) ==
    LET name == get_text(data.name, NULLTEXT)
        rate == to_float(data.hourly_rate, DefaultHourlyRate)
        stored == Unlocked /\ rate.ok /\ name # NULLTEXT
    IN  /\ stored => nextClientId <= MaxClients
        /\ IF stored
           THEN /\ clients' = [i \in DOMAIN clients \cup {nextClientId} |->
                                 IF i = nextClientId
                                 THEN [name |-> name, hourly_rate |-> rate.val]
                                 ELSE clients[i]]
                /\ nextClientId' = nextClientId + 1
                /\ resp' = Response("add_client", CREATED, nextClientId, NULL)
           ELSE /\ UNCHANGED <<clients, nextClientId>>
                /\ resp' = Response("add_client", BAD_REQUEST, NULL, NULL)
        /\ UNCHANGED <<jobs, nextJobId, today, settings, pending>>

\* PUT /api/clients/<client_id>
update_client(client_id, data) ==
    LET name == get_text(data.name, NULLTEXT)
        rate == to_float(data.hourly_rate, DefaultHourlyRate)
    IN  /\ IF \/ ~Unlocked \/ ~rate.ok
              \/ (client_id \in DOMAIN clients /\ name = NULLTEXT)
           THEN /\ UNCHANGED clients
                /\ resp' = Response("update_client", BAD_REQUEST, NULL, NULL)
           ELSE /\ clients' = [i \in DOMAIN clients |->
                                 IF i = client_id
                                 THEN [name |-> name, hourly_rate |-> rate.val]
                                 ELSE clients[i]]
                /\ resp' = Response("update_client", OK, NULL, NULL)
        /\ UNCHANGED <<jobs, nextClientId, nextJobId, today, settings, pending>>

\* update_job as a replacement of the whole row: the invoice columns fall
\* back to their defaults
update_job_reset(job_id, data) ==
    LET hours == to_float(data.hours, DefaultHours)
        hourly_rate == to_float(data.hourly_rate, DefaultHourlyRate)
        total == job_total(hours.val, hourly_rate.val)
        job_date == get_date(data.job_date)
        description == get_text(data.description, NULLTEXT)
    IN  /\ IF \/ ~Unlocked \/ ~hours.ok \/ ~hourly_rate.ok
              \/ (job_id \in DOMAIN jobs /\ (job_date.kind = "null" \/ description = NULLTEXT))
           THEN /\ UNCHANGED jobs
                /\ resp' = Response("update_job", BAD_REQUEST, NULL, NULL)
           ELSE /\ jobs' = [i \in DOMAIN jobs |->
                              IF i = job_id
                              THEN [jobs[i] EXCEPT
                                      !.job_date = job_date,
                                      !.description = description,
                                      !.hours = hours.val,
                                      !.hourly_rate = hourly_rate.val,
                                      !.total = total,
                                      !.notes = get_text(data.notes, ""),
                                      !.status = get_text(data.status, "draft"),
                                      !.invoice_status = "draft",
                                      !.invoice_sent_date = NULL,
                                      !.invoice_paid_date = NULL]
                              ELSE jobs[i]]
                /\ resp' = Response("update_job", OK, NULL, NULL)
        /\ UNCHANGED <<clients, nextClientId, nextJobId, today, settings, pending>>

\* PUT /api/jobs/<job_id>
update_job(job_id, data) ==
    LET hours == to_float(data.hours, DefaultHours)
        hourly_rate == to_float(data.hourly_rate, DefaultHourlyRate)
        total == job_total(hours.val, hourly_rate.val)
        job_date == get_date(data.job_date)
        description == get_text(data.description, NULLTEXT)
    IN  /\ IF \/ ~Unlocked \/ ~hours.ok \/ ~hourly_rate.ok
              \/ (job_id \in DOMAIN jobs /\ (job_date.kind = "null" \/ description = NULLTEXT))
           THEN /\ UNCHANGED jobs
                /\ resp' = Response("update_job", BAD_REQUEST, NULL, NULL)
           ELSE /\ jobs' = [i \in DOMAIN jobs |->
                              IF i = job_id
                              THEN [jobs[i] EXCEPT
                                      !.job_date = job_date,
                                      !.description = description,
                                      !.hours = hours.val,
                                      !.hourly_rate = hourly_rate.val,
                                      !.total = total,
                                      !.notes = get_text(data.notes, ""),
                                      !.status = get_text(data.status, "draft")]
                              ELSE jobs[i]]
                /\ resp' = Response("update_job", OK, NULL, NULL)
        /\ UNCHANGED <<clients, nextClientId, nextJobId, today, settings, pending>>

\* delete_job with "id <= ?" for "id = ?"
delete_job_upto(job_id) ==
    /\ IF Unlocked
       THEN /\ jobs' = [i \in {j \in DOMAIN jobs : j > job_id} |-> jobs[i]]
            /\ resp' = Response("delete_job", OK, NULL, NULL)
       ELSE /\ UNCHANGED jobs
            /\ resp' = Response("delete_job", BAD_REQUEST, NULL, NULL)
    /\ UNCHANGED <<clients, nextClientId, nextJobId, today, settings, pending>>

\* DELETE /api/jobs/<job_id>
delete_job(job_id) ==
    /\ IF Unlocked
       THEN /\ jobs' = [i \in DOMAIN jobs \ {job_id} |-> jobs[i]]
            /\ resp' = Response("delete_job", OK, NULL, NULL)
       ELSE /\ UNCHANGED jobs
            /\ resp' = Response("delete_job", BAD_REQUEST, NULL, NULL)
    /\ UNCHANGED <<clients, nextClientId, nextJobId, today, settings, pending>>

\* the status check accepting any value
valid_status_any(new_status) == TRUE

valid_status(new_status) == new_status \in {"draft", "sent", "paid"}

\* the "sent" UPDATE also resetting invoice_paid_date
set_status_clearing(job, new_status, day) ==
    CASE new_status = "sent" ->
           [job EXCEPT !.invoice_status = new_status, !.invoice_sent_date = day,
                       !.invoice_paid_date = NULL]
      [] new_status = "paid" ->
           [job EXCEPT !.invoice_status = new_status, !.invoice_paid_date = day]
      [] OTHER ->
           [job EXCEPT !.invoice_status = new_status,
                       !.invoice_sent_date = NULL, !.invoice_paid_date = NULL]

\* a status change that only follows draft -> sent -> paid or resets to draft,
\* and otherwise leaves the job as it is
set_status_lifecycle(job, new_status, day) ==
    CASE new_status = "sent" /\ job.invoice_status = "draft" ->
           [job EXCEPT !.invoice_status = new_status, !.invoice_sent_date = day]
      [] new_status = "paid" /\ job.invoice_status = "sent" ->
           [job EXCEPT !.invoice_status = new_status, !.invoice_paid_date = day]
      [] new_status = "draft" ->
           [job EXCEPT !.invoice_status = new_status,
                       !.invoice_sent_date = NULL, !.invoice_paid_date = NULL]
      [] OTHER -> job

\* the "draft" UPDATE leaving the two dates as they are
set_status_keep(job, new_status, day) ==
    CASE new_status = "sent" ->
           [job EXCEPT !.invoice_status = new_status, !.invoice_sent_date = day]
      [] new_status = "paid" ->
           [job EXCEPT !.invoice_status = new_status, !.invoice_paid_date = day]
      [] OTHER ->
           [job EXCEPT !.invoice_status = new_status]

\* the three UPDATE statements of the status change
set_status(job, new_status, day) ==
    CASE new_status = "sent" ->
           [job EXCEPT !.invoice_status = new_status, !.invoice_sent_date = day]
      [] new_status = "paid" ->
           [job EXCEPT !.invoice_status = new_status, !.invoice_paid_date = day]
      [] OTHER ->
           [job EXCEPT !.invoice_status = new_status,
                       !.invoice_sent_date = NULL, !.invoice_paid_date = NULL]

\* PUT /api/settings
update_settings(data) ==
    LET rate == to_float(data.default_hourly_rate, DefaultHourlyRate)
        row == [company_name |-> get_text(data.company_name, "Big Pic Solutions"),
                owner_name |-> get_text(data.owner_name, "Daryll Gomas"),
                address |-> get_text(data.address, ""),
                phone |-> get_text(data.phone, ""),
                email |-> get_text(data.email, ""),
                default_hourly_rate |-> rate.val]
    IN  /\ IF /\ Unlocked
              /\ rate.ok
              /\ NULLTEXT \notin {row.company_name, row.owner_name, row.address,
                                  row.phone, row.email}
           THEN /\ settings' = row
                /\ resp' = Response("update_settings", OK, NULL, NULL)
           ELSE /\ UNCHANGED settings
                /\ resp' = Response("update_settings", BAD_REQUEST, NULL, NULL)
        /\ UNCHANGED <<clients, jobs, nextClientId, nextJobId, today,
                       pending>>

\* POST /api/jobs up to get_next_invoice_number(): hours and the rate are
\* converted, and the maximum is read through a connection of its own
add_job_read(data) ==
    LET hours == to_float(data.hours, DefaultHours)
        hourly_rate == to_float(data.hourly_rate, DefaultHourlyRate)
    IN  /\ Free
        /\ Room(MaxJobs)
        /\ IF hours.ok /\ hourly_rate.ok
           THEN /\ pending' = Start([op |-> "add_job", data |-> data,
                                        invoice_number |->
                                            get_next_invoice_number(jobs)])
                /\ UNCHANGED resp
           ELSE /\ resp' = Response("add_job", BAD_REQUEST, NULL, NULL)
                /\ UNCHANGED pending
        /\ UNCHANGED <<clients, jobs, settings, nextClientId, nextJobId, today>>

\* the INSERT of add_job under a UNIQUE constraint on invoice_number
add_job_write_unique(p) ==
    /\ p \in DOMAIN pending
    /\ p.op = "add_job"
    /\ \E i \in DOMAIN jobs : jobs[i].invoice_number = p.invoice_number
    /\ resp' = Response("add_job", BAD_REQUEST, NULL, NULL)
    /\ pending' = Finish(p)
    /\ UNCHANGED <<clients, jobs, settings, nextClientId, nextJobId, today>>

\* POST /api/jobs from the INSERT on, with the invoice number read earlier;
\* an INSERT that raises (a missing field, "database is locked") is 400
add_job_write(p) ==
    /\ p \in DOMAIN pending
    /\ p.op = "add_job"
    /\ LET data == p.data
           hours == to_float(data.hours, DefaultHours)
           hourly_rate == to_float(data.hourly_rate, DefaultHourlyRate)
           total == job_total(hours.val, hourly_rate.val)
           invoice_number == p.invoice_number
           client_id == to_int(data.client_id)
           job_date == get_date(data.job_date)
           description == get_text(data.description, NULLTEXT)
           job_id == nextJobId
       IN  /\ IF /\ Unlocked
                 /\ client_id.ok /\ job_date.kind # "null" /\ description # NULLTEXT
              THEN /\ jobs' = [i \in DOMAIN jobs \cup {job_id} |->
                                 IF i = job_id
                                 THEN [client_id |-> client_id.val,
                                       job_date |-> job_date,
                                       description |-> description,
                                       hours |-> hours.val,
                                       hourly_rate |-> hourly_rate.val,
                                       total |-> total,
                                       notes |-> get_text(data.notes, ""),
                                       status |-> "draft",
                                       invoice_number |-> invoice_number,
                                       invoice_status |-> "draft",
                                       invoice_sent_date |-> NULL,
                                       invoice_paid_date |-> NULL]
                                 ELSE jobs[i]]
                   /\ nextJobId' = nextJobId + 1
                   /\ resp' = Response("add_job", CREATED, job_id, invoice_number)
              ELSE /\ UNCHANGED <<jobs, nextJobId>>
                   /\ resp' = Response("add_job", BAD_REQUEST, NULL, NULL)
    /\ pending' = Finish(p)
    /\ UNCHANGED <<clients, settings, nextClientId, today>>

\* the layout of the invoice: datetime.fromisoformat(job['job_date']) raises
\* for a job_date that is no ISO date string, and the request is answered 500
render(job_date, invoice_number) ==
    IF is_iso(job_date)
    THEN Response("generate_pdf", OK, NULL, invoice_number)
    ELSE Response("generate_pdf", SERVER_ERROR, NULL, NULL)

\* the first session of generate_pdf reading the job without the JOIN on
\* clients: a job whose client is missing is rendered
generate_pdf_select_nojoin(job_id) ==
    /\ Free
    /\ IF job_id \notin DOMAIN jobs
       THEN /\ resp' = Response("generate_pdf", NOT_FOUND, NULL, NULL)
            /\ UNCHANGED pending
       ELSE IF ~falsy(jobs[job_id].invoice_number)
            THEN /\ resp' = render(jobs[job_id].job_date, jobs[job_id].invoice_number)
                 /\ UNCHANGED pending
            ELSE /\ pending' = Start([op |-> "generate_pdf", stage |-> "select",
                                         job_id |-> job_id,
                                         job_date |-> jobs[job_id].job_date,
                                         invoice_number |-> NULL])
                 /\ UNCHANGED resp
    /\ UNCHANGED <<clients, jobs, settings, nextClientId, nextJobId, today>>

\* GET /api/jobs/<job_id>/pdf, first session: the job is read through a JOIN
\* with clients.  No row is 404; a row that holds a number is rendered at
\* once; a row without one goes on to get_next_invoice_number().
generate_pdf_select(job_id) ==
    /\ Free
    /\ IF job_id \notin DOMAIN jobs \/ jobs[job_id].client_id \notin DOMAIN clients
       THEN /\ resp' = Response("generate_pdf", NOT_FOUND, NULL, NULL)
            /\ UNCHANGED pending
       ELSE IF ~falsy(jobs[job_id].invoice_number)
            THEN /\ resp' = render(jobs[job_id].job_date, jobs[job_id].invoice_number)
                 /\ UNCHANGED pending
            ELSE /\ pending' = Start([op |-> "generate_pdf", stage |-> "select",
                                         job_id |-> job_id,
                                         job_date |-> jobs[job_id].job_date,
                                         invoice_number |-> NULL])
                 /\ UNCHANGED resp
    /\ UNCHANGED <<clients, jobs, settings, nextClientId, nextJobId, today>>

\* generate_pdf, second session: get_next_invoice_number()
generate_pdf_read(p) ==
    /\ p \in DOMAIN pending
    /\ p.op = "generate_pdf"
    /\ p.stage = "select"
    /\ pending' = Step(p, [p EXCEPT
                             !.stage = "read",
                             !.invoice_number = get_next_invoice_number(jobs)])
    /\ UNCHANGED <<clients, jobs, settings, nextClientId, nextJobId, today, resp>>

\* the third session of generate_pdf putting the number on the invoice
\* without storing it
generate_pdf_write_unsaved(p) ==
    /\ p \in DOMAIN pending
    /\ p.op = "generate_pdf"
    /\ p.stage = "read"
    /\ resp' = IF Unlocked
               THEN render(p.job_date, p.invoice_number)
               ELSE Response("generate_pdf", SERVER_ERROR, NULL, NULL)
    /\ pending' = Finish(p)
    /\ UNCHANGED <<clients, jobs, settings, nextClientId, nextJobId, today>>

\* generate_pdf, third session: the UPDATE of invoice_number is committed,
\* then the invoice is laid out from the row read in the first session.  The
\* UPDATE is outside any try: when it raises "database is locked" the
\* request is answered 500 with nothing written.
generate_pdf_write(p) ==
    /\ p \in DOMAIN pending
    /\ p.op = "generate_pdf"
    /\ p.stage = "read"
    /\ LET job_id == p.job_id
           invoice_number == p.invoice_number
       IN  IF Unlocked
           THEN /\ IF job_id \in DOMAIN jobs
                   THEN jobs' = [jobs EXCEPT
                                   ![job_id].invoice_number = invoice_number]
                   ELSE UNCHANGED jobs
                /\ resp' = render(p.job_date, p.invoice_number)
           ELSE /\ UNCHANGED jobs
                /\ resp' = Response("generate_pdf", SERVER_ERROR, NULL, NULL)
    /\ pending' = Finish(p)
    /\ UNCHANGED <<clients, settings, nextClientId, nextJobId, today>>

\* PUT /api/jobs/<job_id>/status up to the SELECT of the job: an invalid
\* status is 400 and a missing job 404; otherwise the request goes on with
\* the invoice_number of the row it read
update_invoice_status_select(job_id, data) ==
    LET new_status == get_text(data.invoice_status, NULLTEXT)
    IN  /\ Free
        /\ IF ~valid_status(new_status)
           THEN /\ resp' = Response("update_invoice_status", BAD_REQUEST, NULL, NULL)
                /\ UNCHANGED pending
           ELSE IF job_id \notin DOMAIN jobs
                THEN /\ resp' = Response("update_invoice_status", NOT_FOUND, NULL, NULL)
                     /\ UNCHANGED pending
                ELSE /\ pending' = Start([op |-> "update_invoice_status",
                                             stage |-> "select",
                                             job_id |-> job_id,
                                             new_status |-> new_status,
                                             lazy |-> FALSE,
                                             day |-> NULL,
                                             invoice_number |->
                                                 jobs[job_id].invoice_number])
                     /\ UNCHANGED resp
        /\ UNCHANGED <<clients, jobs, settings, nextClientId, nextJobId, today>>

\* update_invoice_status: get_next_invoice_number() for a row read without a
\* number
update_invoice_status_read(p) ==
    /\ p \in DOMAIN pending
    /\ p.op = "update_invoice_status"
    /\ p.stage = "select"
    /\ falsy(p.invoice_number)
    /\ pending' = Step(p, [p EXCEPT
                             !.stage = "read",
                             !.lazy = TRUE,
                             !.invoice_number = get_next_invoice_number(jobs)])
    /\ UNCHANGED <<clients, jobs, settings, nextClientId, nextJobId, today, resp>>

\* the request has read all it reads of the store: the row held a number,
\* or get_next_invoice_number() has answered
ReadyToWrite(p) ==
    /\ p \in DOMAIN pending
    /\ p.op = "update_invoice_status"
    /\ p.stage = "read" \/ (p.stage = "select" /\ ~falsy(p.invoice_number))

\* update_invoice_status reading the clock, datetime.now() at line 679.  A
\* request that numbers the job has run its first UPDATE (line 676) by then,
\* which waits for the write lock and holds it from there on; a request for
\* a job that had a number holds no lock yet.  When the first UPDATE raises
\* "database is locked" the request is answered 400 with nothing written.
update_invoice_status_clock(p) ==
    /\ ReadyToWrite(p)
    /\ IF p.lazy /\ ~Unlocked
       THEN /\ resp' = Response("update_invoice_status", BAD_REQUEST, NULL, NULL)
            /\ pending' = Finish(p)
       ELSE /\ pending' = Step(p, [p EXCEPT !.stage = "clock", !.day = today])
            /\ UNCHANGED resp
    /\ UNCHANGED <<clients, jobs, settings, nextClientId, nextJobId, today>>

\* update_invoice_status from the UPDATE of the status to the commit: the
\* number, if one was read, and the status with the date the request read
\* from the clock, whatever the date is by now.  A request that holds no
\* lock yet and finds the database locked is answered 400 with nothing
\* written.
update_invoice_status_write(p) ==
    /\ p \in DOMAIN pending
    /\ p.op = "update_invoice_status"
    /\ p.stage = "clock"
    /\ LET job_id == p.job_id
           invoice_number == p.invoice_number
       IN  IF Holds(p) \/ Unlocked
           THEN /\ IF job_id \in DOMAIN jobs
                   THEN LET job == jobs[job_id]
                            numbered ==
                                IF p.lazy
                                THEN [job EXCEPT !.invoice_number = invoice_number]
                                ELSE job
                        IN  jobs' = [jobs EXCEPT ![job_id] =
                                       set_status(numbered, p.new_status, p.day)]
                   ELSE UNCHANGED jobs
                /\ resp' = Response("update_invoice_status", OK, NULL,
                                    invoice_number)
           ELSE /\ UNCHANGED jobs
                /\ resp' = Response("update_invoice_status", BAD_REQUEST,
                                    NULL, NULL)
    /\ pending' = Finish(p)
    /\ UNCHANGED <<clients, settings, nextClientId, nextJobId, today>>

\* a status change that fails after its first UPDATE, with that UPDATE kept
update_invoice_status_fails_partial(p) ==
    /\ p \in DOMAIN pending
    /\ p.op = "update_invoice_status"
    /\ p.stage \in {"read", "clock"}
    /\ LET job_id == p.job_id
       IN  IF job_id \in DOMAIN jobs /\ p.stage = "clock" /\ p.lazy
           THEN jobs' = [jobs EXCEPT ![job_id].invoice_number =
                                        p.invoice_number]
           ELSE UNCHANGED jobs
    /\ resp' = Response("update_invoice_status", BAD_REQUEST, NULL, NULL)
    /\ pending' = Finish(p)
    /\ UNCHANGED <<clients, settings, nextClientId, nextJobId, today>>

\* update_invoice_status when one of its UPDATE statements raises (a storage
\* error, a wait for the write lock that times out): the handler closes the
\* connection without a commit, which rolls back what the earlier statements
\* wrote, and answers 400
update_invoice_status_fails(p) ==
    /\ p \in DOMAIN pending
    /\ p.op = "update_invoice_status"
    /\ p.stage \in {"read", "clock"}
    /\ resp' = Response("update_invoice_status", BAD_REQUEST, NULL, NULL)
    /\ pending' = Finish(p)
    /\ UNCHANGED <<clients, jobs, settings, nextClientId, nextJobId, today>>

\* ------------------------------------------------------------- the calendar
\* A date is a day ordinal: day 1 is January 1 of year 0, which stands for
\* 2025, and every year has the month lengths of a common year (as 2025,
\* 2026 and 2027 have).
MonthDays == <<31, 28, 31, 30, 31, 30, 31, 31, 30, 31, 30, 31>>

RECURSIVE DaysBefore(_)
DaysBefore(m) == IF m = 1 THEN 0 ELSE DaysBefore(m - 1) + MonthDays[m - 1]

YearDays == DaysBefore(Len(MonthDays)) + MonthDays[Len(MonthDays)]

Date(y, m, d) == y * YearDays + DaysBefore(m) + d

\* the year of a day
year_of(day) == (day - 1) \div YearDays

\* the month of a day
month_of(day) ==
    LET day_of_year == ((day - 1) % YearDays) + 1
    IN  CHOOSE m \in DOMAIN MonthDays :
            /\ DaysBefore(m) < day_of_year
            /\ day_of_year <= DaysBefore(m) + MonthDays[m]

\* date('now', '-7 days')
WeekDays == 7

\* the Julian day number of the day before day 1 (of December 31, 2024)
JulianEpoch == 2460676

\* the last Julian day number strftime takes (of December 31, 9999)
MaxJulianDay == 5373484

\* strftime reads the job_date as a date: a date string, or a number from 0
\* to MaxJulianDay, which it takes for a Julian day number; for any other
\* value it gives NULL
is_date(job_date) ==
    \/ is_iso(job_date)
    \/ job_date.kind = "num" /\ job_date.val \in 0..MaxJulianDay

\* the day strftime reads: the day a date string names, or the day of the
\* Julian day number (day 0 and below are days before year 0)
day_of(job_date) ==
    IF job_date.kind = "num" THEN job_date.val - JulianEpoch ELSE job_date.val

\* strftime('%Y', job_date) = the current year: strftime gives NULL for text
\* that is no date
in_year(job_date, now) ==
    is_date(job_date) /\ year_of(day_of(job_date)) = year_of(now)

\* strftime('%Y-%m', job_date) = the current year and month
in_month(job_date, now) ==
    in_year(job_date, now) /\ month_of(day_of(job_date)) = month_of(now)

\* job_date >= date('now', '-7 days'), compared as SQLite compares values: a
\* number sorts before every text, and "abc" after every date string.
\* date('now') is the date of the clock in UTC.
in_week(job_date, utc_now) ==
    CASE job_date.kind = "num" -> FALSE
      [] is_iso(job_date) -> job_date.val >= utc_now - WeekDays
      [] OTHER -> TRUE

\* ------------------------------------------------------------ the dashboard
\* SELECT SUM(total) FROM jobs WHERE id IN ids, with "or 0" for no row
RECURSIVE sum_total(_, _)
sum_total(js, ids) ==
    IF ids = {} THEN 0
    ELSE LET i == CHOOSE x \in ids : TRUE
         IN  js[i].total + sum_total(js, ids \ {i})

total_revenue(js) == sum_total(js, DOMAIN js)

\* the revenue of the current year's jobs dated today or earlier
year_revenue_to_date(js, now) ==
    sum_total(js, {i \in DOMAIN js : /\ in_year(js[i].job_date, now)
                                     /\ day_of(js[i].job_date) <= now})

year_revenue(js, now) ==
    sum_total(js, {i \in DOMAIN js : in_year(js[i].job_date, now)})

month_revenue(js, now) ==
    sum_total(js, {i \in DOMAIN js : in_month(js[i].job_date, now)})

week_revenue(js, utc_now) ==
    sum_total(js, {i \in DOMAIN js : in_week(js[i].job_date, utc_now)})

\* The dates SQLite's date('now') can give while datetime.now() gives today:
\* date('now') is in UTC and datetime.now() in the server's local time, so
\* the two are the same day or, by the time zone and the hour, a day apart.
UtcDates == {today - 1, today, today + 1}

\* GET /api/stats runs its SELECT statements one after another, outside any
\* transaction: each sees the store as it is when it runs.  The figures are
\* sums of whole amounts, which round(..., 2) returns as they are.  In a
\* request in progress, seen is the jobs table as the first SELECT saw it and
\* steady tells that every later SELECT saw the same.
get_stats_total ==
    /\ Free
    /\ pending' = Start([op |-> "get_stats", stage |-> "total",
                            seen |-> jobs, steady |-> TRUE,
                            total_revenue |-> total_revenue(jobs),
                            year_revenue |-> 0, month_revenue |-> 0])
    /\ UNCHANGED <<clients, jobs, settings, nextClientId, nextJobId, today, resp>>

get_stats_year(p) ==
    /\ p \in DOMAIN pending
    /\ p.op = "get_stats"
    /\ p.stage = "total"
    /\ pending' = Step(p, [p EXCEPT
                             !.stage = "year",
                             !.steady = @ /\ jobs = p.seen,
                             !.year_revenue = year_revenue(jobs, today)])
    /\ UNCHANGED <<clients, jobs, settings, nextClientId, nextJobId, today, resp>>

get_stats_month(p) ==
    /\ p \in DOMAIN pending
    /\ p.op = "get_stats"
    /\ p.stage = "year"
    /\ pending' = Step(p, [p EXCEPT
                             !.stage = "month",
                             !.steady = @ /\ jobs = p.seen,
                             !.month_revenue = month_revenue(jobs, today)])
    /\ UNCHANGED <<clients, jobs, settings, nextClientId, nextJobId, today, resp>>

\* the last SELECT, which takes its date from SQLite's clock, and the
\* response
get_stats_week(p, utc_now) ==
    /\ p \in DOMAIN pending
    /\ p.op = "get_stats"
    /\ p.stage = "month"
    /\ resp' = [op |-> "get_stats", code |-> OK,
                total_revenue |-> p.total_revenue,
                year_revenue |-> p.year_revenue,
                month_revenue |-> p.month_revenue,
                week_revenue |-> week_revenue(jobs, utc_now)]
    /\ pending' = Finish(p)
    /\ UNCHANGED <<clients, jobs, settings, nextClientId, nextJobId, today>>

\* datetime.now() moves on to the next day
Tick ==
    /\ today < MaxDay
    /\ today' = today + 1
    /\ UNCHANGED <<clients, jobs, nextClientId, nextJobId, resp, settings, pending>>

\* ------------------------------------------------------------ request inputs
JobIds == 1..(MaxJobs + 1)
ClientIds == 1..(MaxClients + 1)

ClientBase == [name |-> Text("Acme"), hourly_rate |-> Absent]

ClientData ==
    {ClientBase,
     [ClientBase EXCEPT !.name = TAbsent],
     [ClientBase EXCEPT !.hourly_rate = Str]}

\* a well-formed job body; the caller's own "total" is part of it
JobBase ==
    [client_id |-> Num(1), job_date |-> DateStr(1), description |-> Text("work"),
     hours |-> Num(2), hourly_rate |-> Absent, total |-> Num(999),
     notes |-> TAbsent, status |-> TAbsent]

\* bodies that the handlers reject
BadJobData ==
    {[JobBase EXCEPT !.client_id = Absent],
     [JobBase EXCEPT !.job_date = Null],
     [JobBase EXCEPT !.description = TAbsent],
     [JobBase EXCEPT !.hours = Str],
     [JobBase EXCEPT !.hourly_rate = Null]}

JobData == {JobBase} \cup BadJobData

\* job bodies naming a client that exists, one that does not, or none, and
\* one whose job_date is no date
RefJobData ==
    {JobBase,
     [JobBase EXCEPT !.client_id = NumStr(MaxClients + 1)],
     [JobBase EXCEPT !.client_id = Absent],
     [JobBase EXCEPT !.client_id = Str],
     [JobBase EXCEPT !.job_date = Str]}

\* an update that is accepted
DoneData ==
    [JobBase EXCEPT !.hours = NumStr(3), !.hourly_rate = Num(50),
                    !.status = Text("done")]

UpdateData ==
    {DoneData,
     [JobBase EXCEPT !.description = TNull],
     [JobBase EXCEPT !.hours = Null]}

SettingsBase ==
    [company_name |-> Text("Big Pic"), owner_name |-> TAbsent, address |-> TAbsent,
     phone |-> TAbsent, email |-> TAbsent, default_hourly_rate |-> NumStr(150)]

SettingsData ==
    {SettingsBase,
     [SettingsBase EXCEPT !.default_hourly_rate = Str],
     [SettingsBase EXCEPT !.company_name = TNull]}

StatusData ==
    [invoice_status : {TAbsent, Text("draft"), Text("sent"), Text("paid"), Text("void")}]

\* the statuses that update_invoice_status accepts
LifeStatusData ==
    [invoice_status : {Text("draft"), Text("sent"), Text("paid")}]

SentData == [invoice_status |-> Text("sent")]

RefStatusData ==
    [invoice_status : {TAbsent, Text("sent"), Text("void")}]

\* the days on which the dashboard is read: February 2 and February 20 of
\* year 1
StatsToday == {Date(1, 2, 2), Date(1, 2, 20)}

\* jobs dated in the current month, in the last days of the month before
\* and later in the year, a job with negative hours, and jobs whose job_date
\* is a number (the Julian day number of February 2 of year 1, spelled in a
\* string, and a small number) or a string that is no date
StatsJobData ==
    {[JobBase EXCEPT !.job_date = DateStr(Date(1, 2, 1))],
     [JobBase EXCEPT !.job_date = DateStr(Date(1, 1, 26))],
     [JobBase EXCEPT !.job_date = DateStr(Date(1, 3, 1))],
     [JobBase EXCEPT !.job_date = DateStr(Date(1, 2, 1)), !.hours = Num(-1)],
     [JobBase EXCEPT !.job_date = NumStr(JulianEpoch + Date(1, 2, 2))],
     [JobBase EXCEPT !.job_date = Num(5)],
     [JobBase EXCEPT !.job_date = Str]}

\* no request is in progress
Idle == DOMAIN pending = {}

\* ----------------------------------------------------------- specifications
\* The history of the numbers given to jobs: a step after which a job holds
\* a number that it did not hold before is recorded, in order.
Log ==
    LET given == {i \in DOMAIN jobs' :
                     /\ jobs'[i].invoice_number # NULL
                     /\ i \in DOMAIN jobs =>
                            jobs[i].invoice_number # jobs'[i].invoice_number}
    IN  assigned' = IF given = {}
                    THEN assigned
                    ELSE LET i == CHOOSE i \in given : TRUE
                         IN  Append(assigned,
                                    [num |-> jobs'[i].invoice_number, job |-> i])

\* the history is not kept
NoLog == UNCHANGED assigned

\* Serialized requests: each request runs to its response before the next
\* one starts.  All on one day, every job for the first client.
Next ==
    \/ Idle /\ \E data \in JobData : add_job_read(data) /\ Log
    \/ \E p \in DOMAIN pending : add_job_write(p) /\ Log
    \/ Idle /\ \E job_id \in JobIds, data \in UpdateData : update_job(job_id, data) /\ Log
    \/ Idle /\ \E job_id \in JobIds : generate_pdf_select(job_id) /\ Log
    \/ \E p \in DOMAIN pending : generate_pdf_read(p) /\ Log
    \/ \E p \in DOMAIN pending : generate_pdf_write(p) /\ Log
    \/ Idle /\ \E job_id \in JobIds : delete_job(job_id) /\ Log
    \/ Idle /\ \E job_id \in JobIds, data \in StatusData :
                  update_invoice_status_select(job_id, data) /\ Log
    \/ \E p \in DOMAIN pending : update_invoice_status_read(p) /\ Log
    \/ \E p \in DOMAIN pending : update_invoice_status_clock(p) /\ Log
    \/ \E p \in DOMAIN pending : update_invoice_status_write(p) /\ Log

Spec == Init /\ [][Next]_vars

\* Concurrent requests that assign invoice numbers: creations, renders and
\* deletions of several jobs, interleaved session by session
NextConc ==
    \/ add_job_read(JobBase) /\ NoLog
    \/ \E p \in DOMAIN pending : add_job_write(p) /\ NoLog
    \/ \E job_id \in JobIds : generate_pdf_select(job_id) /\ NoLog
    \/ \E p \in DOMAIN pending : generate_pdf_read(p) /\ NoLog
    \/ \E p \in DOMAIN pending : generate_pdf_write(p) /\ NoLog
    \/ \E job_id \in JobIds : delete_job(job_id) /\ NoLog

SpecConc == Init /\ [][NextConc]_vars

\* A store that holds one job at most: empty, or an older database with one
\* row that predates the invoice columns
InitLone == Init /\ Len(jobs) <= 1

\* a job is created only while the store is empty and no request is in
\* progress: the store never holds two jobs
Lone == Idle /\ DOMAIN jobs = {} /\ Room(MaxJobs)

\* a request addresses the job in the store or an id that names no job
LoneIds == DOMAIN jobs \cup {nextJobId}

\* no request of this kind is in progress
NoneIs(op) == \A q \in DOMAIN pending : q.op # op

\* fewer than n requests of this kind are in progress
Fewer(op, n) == Count({q \in DOMAIN pending : q.op = op}) < n

\* Concurrent requests on one job and the client it names: the job is
\* created for a client that exists or for one that does not
NextRefs ==
    \/ \E data \in ClientData : add_client(data) /\ NoLog
    \/ \E client_id \in ClientIds, data \in ClientData :
           update_client(client_id, data) /\ NoLog
    \/ \E data \in RefJobData : Lone /\ add_job_read(data) /\ NoLog
    \/ \E p \in DOMAIN pending : add_job_write(p) /\ NoLog
    \/ \E job_id \in JobIds : generate_pdf_select(job_id) /\ NoLog
    \/ \E p \in DOMAIN pending : generate_pdf_read(p) /\ NoLog
    \/ \E p \in DOMAIN pending : generate_pdf_write(p) /\ NoLog
    \/ \E job_id \in JobIds : delete_job(job_id) /\ NoLog
    \/ \E job_id \in JobIds, data \in RefStatusData :
           update_invoice_status_select(job_id, data) /\ NoLog
    \/ \E p \in DOMAIN pending : update_invoice_status_read(p) /\ NoLog
    \/ \E p \in DOMAIN pending : update_invoice_status_clock(p) /\ NoLog
    \/ \E p \in DOMAIN pending : update_invoice_status_write(p) /\ NoLog

SpecRefs == InitLone /\ [][NextRefs]_vars

\* The life of one invoice over several days: status changes, two at a time,
\* updates and deletions while the date moves on
NextLife ==
    \/ Lone /\ add_job_read(JobBase) /\ NoLog
    \/ \E p \in DOMAIN pending : add_job_write(p) /\ NoLog
    \/ \E job_id \in LoneIds : update_job(job_id, DoneData) /\ NoLog
    \/ \E job_id \in LoneIds : delete_job(job_id) /\ NoLog
    \/ \E job_id \in LoneIds, data \in LifeStatusData :
           Fewer("update_invoice_status", 2)
               /\ update_invoice_status_select(job_id, data) /\ NoLog
    \/ \E p \in DOMAIN pending : update_invoice_status_read(p) /\ NoLog
    \/ \E p \in DOMAIN pending : update_invoice_status_clock(p) /\ NoLog
    \/ \E p \in DOMAIN pending : update_invoice_status_write(p) /\ NoLog
    \/ Tick /\ NoLog

SpecLife == InitLone /\ [][NextLife]_vars

\* The numbers of several invoices: concurrent creations, renders and status
\* changes of several jobs; one render and one status change at a time
NextNum ==
    \/ add_job_read(JobBase) /\ NoLog
    \/ \E p \in DOMAIN pending : add_job_write(p) /\ NoLog
    \/ \E job_id \in JobIds :
           NoneIs("generate_pdf") /\ generate_pdf_select(job_id) /\ NoLog
    \/ \E p \in DOMAIN pending : generate_pdf_read(p) /\ NoLog
    \/ \E p \in DOMAIN pending : generate_pdf_write(p) /\ NoLog
    \/ \E job_id \in JobIds : delete_job(job_id) /\ NoLog
    \/ \E job_id \in JobIds :
           NoneIs("update_invoice_status")
               /\ update_invoice_status_select(job_id, SentData) /\ NoLog
    \/ \E p \in DOMAIN pending : update_invoice_status_read(p) /\ NoLog
    \/ \E p \in DOMAIN pending : update_invoice_status_clock(p) /\ NoLog
    \/ \E p \in DOMAIN pending : update_invoice_status_write(p) /\ NoLog

SpecNum == Init /\ [][NextNum]_vars

\* Concurrent creations, updates, deletions and status changes of several
\* well-formed jobs; one status change at a time
NextEdit ==
    \/ add_job_read(JobBase) /\ NoLog
    \/ \E p \in DOMAIN pending : add_job_write(p) /\ NoLog
    \/ \E job_id \in JobIds, data \in UpdateData : update_job(job_id, data) /\ NoLog
    \/ \E job_id \in JobIds : delete_job(job_id) /\ NoLog
    \/ \E job_id \in JobIds :
           NoneIs("update_invoice_status")
               /\ update_invoice_status_select(job_id, SentData) /\ NoLog
    \/ \E p \in DOMAIN pending : update_invoice_status_read(p) /\ NoLog
    \/ \E p \in DOMAIN pending : update_invoice_status_clock(p) /\ NoLog
    \/ \E p \in DOMAIN pending : update_invoice_status_write(p) /\ NoLog

SpecEdit == Init /\ [][NextEdit]_vars

\* Concurrent write requests on one job, failing ones included
NextFail ==
    \/ \E data \in ClientData : add_client(data) /\ NoLog
    \/ \E data \in JobData : Lone /\ add_job_read(data) /\ NoLog
    \/ \E p \in DOMAIN pending : add_job_write(p) /\ NoLog
    \/ \E job_id \in LoneIds, data \in UpdateData : update_job(job_id, data) /\ NoLog
    \/ \E job_id \in LoneIds, data \in RefStatusData :
           update_invoice_status_select(job_id, data) /\ NoLog
    \/ \E p \in DOMAIN pending : update_invoice_status_read(p) /\ NoLog
    \/ \E p \in DOMAIN pending : update_invoice_status_clock(p) /\ NoLog
    \/ \E p \in DOMAIN pending : update_invoice_status_write(p) /\ NoLog
    \/ \E p \in DOMAIN pending : update_invoice_status_fails(p) /\ NoLog
    \/ \E data \in SettingsData : update_settings(data) /\ NoLog

SpecFail == InitLone /\ [][NextFail]_vars

\* The dashboard read while jobs are created and deleted: one dashboard
\* request and one creation at a time
InitStats ==
    /\ jobs = <<>>
    /\ nextJobId = 1
    /\ clients = <<LegacyClient>>
    /\ nextClientId = 2
    /\ settings = DefaultSettings
    /\ today \in StatsToday
    /\ resp = Response("none", OK, NULL, NULL)
    /\ assigned = <<>>
    /\ pending = <<>>

NextStats ==
    \/ \E data \in StatsJobData : NoneIs("add_job") /\ add_job_read(data) /\ NoLog
    \/ \E p \in DOMAIN pending : add_job_write(p) /\ NoLog
    \/ \E job_id \in JobIds : delete_job(job_id) /\ NoLog
    \/ NoneIs("get_stats") /\ get_stats_total /\ NoLog
    \/ \E p \in DOMAIN pending : get_stats_year(p) /\ NoLog
    \/ \E p \in DOMAIN pending : get_stats_month(p) /\ NoLog
    \/ \E p \in DOMAIN pending : \E utc_now \in UtcDates :
           get_stats_week(p, utc_now) /\ NoLog

SpecStats == InitStats /\ [][NextStats]_vars

\* ------------------------------------------------------------------- claims
\* every id handed out so far still names a job: nothing has been deleted
NoJobDeleted == \A i \in 1..(nextJobId - 1) : i \in DOMAIN jobs

\* C1: with serialized requests and no job deleted, the invoice numbers in
\* the order they were assigned (at creation or lazily at the first render or
\* status change) start at 1, strictly increase and hold no duplicate.
C1_NumbersIncrease ==
    NoJobDeleted =>
        /\ Len(assigned) > 0 => assigned[1].num = 1
        /\ \A i \in 1..Len(assigned) : \A j \in 1..Len(assigned) :
               i < j => assigned[i].num < assigned[j].num

\* a job created after the legacy job got number 1, and the legacy job was
\* numbered lazily afterwards
C1_Witness ==
    /\ NoJobDeleted
    /\ Idle
    /\ Len(assigned) = 2
    /\ assigned[1].job = 2 /\ assigned[2].job = 1
    /\ assigned[2].num = 2

\* C2: with serialized requests, an invoice number once assigned to a job is
\* never afterwards assigned to a different job, also after the job that
\* held it has been deleted.
C2_NeverReused ==
    \A i \in 1..Len(assigned) : \A j \in 1..Len(assigned) :
        assigned[i].num = assigned[j].num => assigned[i].job = assigned[j].job

\* C3: once a job holds a non-null invoice_number, no operation changes that
\* job's invoice_number for as long as the job exists.
C3_NumberKept ==
    [][\A i \in DOMAIN jobs \cap DOMAIN jobs' :
          jobs[i].invoice_number # NULL =>
              jobs'[i].invoice_number = jobs[i].invoice_number]_vars

\* the request p goes on as rec
GoesOn(p, rec) == pending' = Step(p, rec)

Refused(p) ==
    /\ resp'.code = BAD_REQUEST
    /\ jobs' = jobs
    /\ pending' = Finish(p)

C5_TotalIsProduct ==
    \A i \in DOMAIN jobs :
        /\ jobs[i].total = jobs[i].hours * jobs[i].hourly_rate
        /\ jobs[i].total # JobBase.total.val

\* a job created with 2 hours at the default rate and updated to 3 hours at 50
C5_Witness ==
    /\ resp.op = "update_job" /\ resp.code = OK
    /\ \E i \in DOMAIN jobs :
           /\ jobs[i].invoice_number # NULL
           /\ jobs[i].hours = 3 /\ jobs[i].hourly_rate = 50 /\ jobs[i].total = 150

\* C6: every stored job's client_id is the id of an existing client; a
\* creation request naming no existing client adds no job.
C6_ClientExists ==
    \A i \in DOMAIN jobs : jobs[i].client_id \in DOMAIN clients

\* the moves of invoice_status that C7 allows
LifecycleMove(old, new) ==
    \/ old = "draft" /\ new = "sent"
    \/ old = "sent" /\ new = "paid"
    \/ new = "draft"

Requested(data) == get_text(data.invoice_status, NULLTEXT)

\* C8: a status change naming none of draft, sent, paid is answered 400,
\* whether or not the job exists, and changes no job and assigns no number:
\* the request ends there, with nothing left to write.
C8_InvalidStatusRejected ==
    [][\A job_id \in JobIds : \A data \in StatusData :
          (/\ Requested(data) \notin {"draft", "sent", "paid"}
           /\ update_invoice_status_select(job_id, data)) =>
              /\ resp'.code = BAD_REQUEST
              /\ jobs' = jobs
              /\ pending' = pending]_vars

\* an invalid status change was just refused while an unnumbered job exists
C8_Witness ==
    /\ resp.op = "update_invoice_status" /\ resp.code = BAD_REQUEST
    /\ \E i \in DOMAIN jobs : jobs[i].invoice_number = NULL

\* the job cannot be found by the render: no such job, or no such client
RenderFindsNothing(job_id) ==
    job_id \notin DOMAIN jobs \/ jobs[job_id].client_id \notin DOMAIN clients

\* the store is as it was, and so is the next invoice number; the request
\* ends there, with nothing left to write
StoreUnchanged ==
    /\ jobs' = jobs
    /\ clients' = clients
    /\ pending' = pending
    /\ get_next_invoice_number(jobs') = get_next_invoice_number(jobs)

\* C9 as stated: a render or status change for a job that cannot be found
\* fails with NotFound and leaves the store unchanged.
C9_NotFound ==
    [][/\ \A job_id \in JobIds :
              (RenderFindsNothing(job_id) /\ generate_pdf_select(job_id)) =>
                  (resp'.code = NOT_FOUND /\ StoreUnchanged)
       /\ \A job_id \in JobIds : \A data \in RefStatusData :
              (/\ job_id \notin DOMAIN jobs
               /\ update_invoice_status_select(job_id, data)) =>
                  (resp'.code = NOT_FOUND /\ StoreUnchanged)]_vars

\* C9 amended: as C9, but a status change for a missing job fails with
\* NotFound only when it names draft, sent or paid; naming anything else it
\* fails with 400.  The store is unchanged either way.
C9_NotFoundOrInvalid ==
    [][/\ \A job_id \in JobIds :
              (RenderFindsNothing(job_id) /\ generate_pdf_select(job_id)) =>
                  (resp'.code = NOT_FOUND /\ StoreUnchanged)
       /\ \A job_id \in JobIds : \A data \in RefStatusData :
              (/\ job_id \notin DOMAIN jobs
               /\ update_invoice_status_select(job_id, data)) =>
                  /\ resp'.code = IF Requested(data) \in {"draft", "sent", "paid"}
                                  THEN NOT_FOUND ELSE BAD_REQUEST
                  /\ StoreUnchanged]_vars

\* a render was just refused although the job exists: its client does not
C9_Witness ==
    /\ resp.op = "generate_pdf" /\ resp.code = NOT_FOUND
    /\ Idle
    /\ \E i \in DOMAIN jobs :
           /\ jobs[i].client_id \notin DOMAIN clients
           /\ jobs[i].invoice_number # NULL

AllInCurrentYear ==
    \A i \in DOMAIN jobs : in_year(jobs[i].job_date, today)

NoNegativeTotal == \A i \in DOMAIN jobs : jobs[i].total >= 0

\* C11 as stated: when every job is dated in the current year, the figures
\* of the dashboard satisfy week <= month <= year <= total.
C11_RevenueChain ==
    [][\A p \in DOMAIN pending : \A utc_now \in UtcDates :
          (/\ p.op = "get_stats"
           /\ get_stats_week(p, utc_now)
           /\ AllInCurrentYear) =>
              /\ resp'.week_revenue <= resp'.month_revenue
              /\ resp'.month_revenue <= resp'.year_revenue
              /\ resp'.year_revenue <= resp'.total_revenue]_vars

\* C11 amended: when every job is dated in the current year and no job was
\* created, changed or deleted while the dashboard read its figures,
\* year_revenue equals total_revenue, and if besides no job has a negative
\* total then month_revenue <= year_revenue and week_revenue <= year_revenue.
\* (The week's figure may exceed the month's.)
C11_RevenueBounds ==
    [][\A p \in DOMAIN pending : \A utc_now \in UtcDates :
          (/\ p.op = "get_stats"
           /\ get_stats_week(p, utc_now)
           /\ p.steady /\ jobs = p.seen
           /\ AllInCurrentYear) =>
              /\ resp'.year_revenue = resp'.total_revenue
              /\ NoNegativeTotal =>
                     /\ resp'.month_revenue <= resp'.year_revenue
                     /\ resp'.week_revenue <= resp'.year_revenue]_vars

\* the dashboard was read on February 2 with a job dated January 26 and a
\* job dated February 1 of the same year: the week's figure is above the
\* month's and equals the year's and the total
C11_Witness ==
    /\ resp.op = "get_stats"
    /\ AllInCurrentYear /\ NoNegativeTotal
    /\ Cardinality(DOMAIN jobs) = 2
    /\ resp.month_revenue > 0
    /\ resp.week_revenue > resp.month_revenue
    /\ resp.week_revenue = resp.year_revenue
    /\ resp.year_revenue = resp.total_revenue
    /\ resp.total_revenue = total_revenue(jobs)

\* some other job than this one holds the number
HeldByOther(num, job_id) ==
    \E i \in DOMAIN jobs \ {job_id} : jobs[i].invoice_number = num

\* two distinct jobs hold the number
HeldTwice(js, num) ==
    \E i, j \in DOMAIN js :
        i # j /\ js[i].invoice_number = num /\ js[j].invoice_number = num

\* C12: when two requests have read the same maximum before either wrote,
\* the second write is not rejected: a creation answers 201 and a lazy
\* assignment 200 although another job already holds the number, and two
\* distinct jobs hold the same invoice number afterwards.
C12_DuplicateNumbers ==
    [][\A p \in DOMAIN pending :
          /\ (/\ p.op = "add_job"
              /\ HeldByOther(p.invoice_number, NULL)
              /\ add_job_write(p)) =>
                 /\ resp'.code = CREATED
                 /\ resp'.invoice_number = p.invoice_number
                 /\ HeldTwice(jobs', p.invoice_number)
          /\ (/\ p.op = "generate_pdf"
              /\ p.job_id \in DOMAIN jobs
              /\ HeldByOther(p.invoice_number, p.job_id)
              /\ generate_pdf_write(p)) =>
                 /\ resp'.code = OK
                 /\ resp'.invoice_number = p.invoice_number
                 /\ HeldTwice(jobs', p.invoice_number)]_vars

\* a creation and a lazy assignment raced: the job created and the older
\* job that had no number both hold number 1
C12_Witness ==
    /\ resp.code \in {OK, CREATED}
    /\ Idle
    /\ DOMAIN jobs = {1, 2}
    /\ jobs[1].invoice_number = 1
    /\ jobs[2].invoice_number = 1

\* C13: a write request answered 400 (a creation with a missing field or
\* hours that are no number, a status change that raises midway, ...) leaves
\* clients, jobs and settings as they were, and the next job created gets
\* the id and invoice number it would have got without the request.
C13_FailureChangesNothing ==
    [][resp'.code = BAD_REQUEST =>
          /\ clients' = clients
          /\ jobs' = jobs
          /\ settings' = settings
          /\ nextClientId' = nextClientId
          /\ nextJobId' = nextJobId
          /\ get_next_invoice_number(jobs') = get_next_invoice_number(jobs)]_vars

\* a status change was just answered 400 on a store with changed settings
\* and a job that still has no invoice number
C13_Witness ==
    /\ resp.op = "update_invoice_status" /\ resp.code = BAD_REQUEST
    /\ Idle
    /\ settings # DefaultSettings
    /\ clients # <<>>
    /\ \E i \in DOMAIN jobs : jobs[i].invoice_number = NULL

\* the number the claim expects of an assignment: the highest invoice_number
\* any job holds plus 1, or 1 when no job holds one
ExpectedNumber ==
    LET held == {jobs[i].invoice_number : i \in DOMAIN jobs} \ {NULL}
    IN  IF held = {} THEN 1 ELSE MaxOf(held) + 1

C15_StatusHasDates ==
    \A i \in DOMAIN jobs :
        /\ jobs[i].invoice_status = "draft" =>
               (jobs[i].invoice_sent_date = NULL /\ jobs[i].invoice_paid_date = NULL)
        /\ jobs[i].invoice_status = "sent" => jobs[i].invoice_sent_date # NULL
        /\ jobs[i].invoice_status = "paid" => jobs[i].invoice_paid_date # NULL

\* a job that was sent and then paid holds both dates, next to a job set
\* back to draft
C15_Witness ==
    /\ resp.op = "update_invoice_status" /\ resp.code = OK
    /\ Idle
    /\ \E i \in DOMAIN jobs :
           /\ jobs[i].invoice_status = "paid"
           /\ jobs[i].invoice_sent_date # NULL
           /\ jobs[i].invoice_paid_date # NULL
    /\ \E i \in DOMAIN jobs :
           /\ jobs[i].invoice_status = "draft"
           /\ jobs[i].invoice_number # NULL

\* the fields of a job that update_job does not set
Kept(job) ==
    <<job.client_id, job.invoice_number, job.invoice_status,
      job.invoice_sent_date, job.invoice_paid_date>>

Converts(data) ==
    /\ to_float(data.hours, DefaultHours).ok
    /\ to_float(data.hourly_rate, DefaultHourlyRate).ok

====
